---- MODULE Spec2Model ----
(***************************************************************************)
(* A model of the document-processing service: the extraction cascade of   *)
(* services/text_extraction.py, the multi-pass anonymizer of               *)
(* services/pii_anonymization.py and the request handler of main.py.       *)
(*                                                                         *)
(* Text is a sequence of one-character strings.  Offsets are 0-based and    *)
(* half-open as in Python: the span [s,e) of t is SubSeq(t, s+1, e).        *)
(***************************************************************************)
EXTENDS Integers, Sequences, FiniteSets, TLC

\* ------------------------------------------------------------ characters

Upper ==
    {"A","B","C","D","E","F","G","H","I","J","K","L","M",
     "N","O","P","Q","R","S","T","U","V","W","X","Y","Z"}

Lower ==
    {"a","b","c","d","e","f","g","h","i","j","k","l","m",
     "n","o","p","q","r","s","t","u","v","w","x","y","z"}

Digit ==
    {"0","1","2","3","4","5","6","7","8","9"}

\* \w of the re module, on the ASCII characters of the model
WordChar ==
    Upper \cup Lower \cup Digit \cup {"_"}

\* \s
Space ==
    {" ", "\t", "\n", "\r"}

\* [A-Za-z0-9._%+-]
EmailLocalChar ==
    Upper \cup Lower \cup Digit \cup {".", "_", "%", "+", "-"}

\* [A-Za-z0-9.-]
EmailDomainChar ==
    Upper \cup Lower \cup Digit \cup {".", "-"}

\* [A-Z|a-z]: the bar is a member of the class
EmailTldChar ==
    Upper \cup Lower \cup {"|"}

\* a mutant: the URL class without the two brackets
UrlStopChar_NoBrackets ==
    Space \cup {"<", ">", "\"", "{", "}", "|", "\\", "^"}

\* the characters the URL class [^\s<>"{}|\\^`\[\]] excludes (the backquote,
\* which no text of the model holds, cannot be written in a string here)
UrlStopChar ==
    Space \cup {"<", ">", "\"", "{", "}", "|", "\\", "^", "[", "]"}

\* a byte that is no valid UTF-8: bytes.decode(errors='ignore') drops it
InvalidByte ==
    {"\\xff", "\\xfe"}

\* ------------------------------------------------------ the re primitives

\* the character at 0-based offset i of t, "" past either end
CharAt(t, i) ==
    IF i >= 0 /\ i < Len(t) THEN t[i + 1] ELSE ""

\* t[s:e]
Slice(t, s, e) ==
    SubSeq(t, s + 1, e)

\* \b at offset i: exactly one of the characters around it is a word character
WordBoundary(t, i) ==
    (CharAt(t, i - 1) \in WordChar) # (CharAt(t, i) \in WordChar)

Min(S) ==
    CHOOSE x \in S : \A y \in S : x <= y

Max(S) ==
    CHOOSE x \in S : \A y \in S : y <= x

\* the end offset of the longest run of characters of class cls starting at
\* i: the first offset from i on whose character is not of the class
RunEnd(t, i, cls) ==
    IF i >= Len(t) THEN i
    ELSE Min({j \in i .. Len(t) : CharAt(t, j) \notin cls})

\* \d{n} at offset i: the end offset, or -1
Digits(t, i, n) ==
    IF i >= 0 /\ \A k \in 0 .. (n - 1) : CharAt(t, i + k) \in Digit
    THEN i + n ELSE -1

\* [seps]? at offset i, greedy: what follows is a digit, so no backtracking
OptSep(t, i, seps) ==
    IF i < 0 THEN -1 ELSE IF CharAt(t, i) \in seps THEN i + 1 ELSE i

\* a literal character at offset i
Lit(t, i, c) ==
    IF i >= 0 /\ CharAt(t, i) = c THEN i + 1 ELSE -1

\* \d{1,3} followed by what is no digit: the whole run of 1 to 3 digits
Digits13(t, i) ==
    IF i < 0 THEN -1
    ELSE LET e == RunEnd(t, i, Digit)
         IN  IF e - i >= 1 /\ e - i <= 3 THEN e ELSE -1

\* a trailing \b at offset e
EndBoundary(t, e) ==
    IF e >= 0 /\ WordBoundary(t, e) THEN e ELSE -1

\* ------------------------------------------------- the seven patterns

\* \b[A-Za-z0-9._%+-]+@[A-Za-z0-9.-]+\.[A-Z|a-z]{2,}\b
\* The local part is the whole run before the @.  The domain is greedy and
\* backtracks to the last dot after which two or more TLD characters end at
\* a word boundary; the TLD is greedy and backtracks to a boundary.
MatchEmail(t, i) ==
    LET l == RunEnd(t, i, EmailLocalChar)
        dmax == RunEnd(t, l + 1, EmailDomainChar)
        TldEnds(d) ==
            {e \in (d + 3) .. RunEnd(t, d + 1, EmailTldChar) : WordBoundary(t, e)}
        dots == {d \in (l + 2) .. (dmax - 1) :
                    CharAt(t, d) = "." /\ TldEnds(d) # {}}
    IN  IF WordBoundary(t, i) /\ l > i /\ CharAt(t, l) = "@" /\ dots # {}
        THEN Max(TldEnds(Max(dots)))
        ELSE -1

\* \b\d{3}[-.]?\d{3}[-.]?\d{4}\b
MatchPhone(t, i) ==
    IF WordBoundary(t, i)
    THEN EndBoundary(t,
           Digits(t, OptSep(t, Digits(t, OptSep(t, Digits(t, i, 3),
                  {"-", "."}), 3), {"-", "."}), 4))
    ELSE -1

\* \(\d{3}\)\s*\d{3}[-.]?\d{4}
MatchPhoneParen(t, i) ==
    LET close == Lit(t, Digits(t, Lit(t, i, "("), 3), ")")
    IN  IF close < 0 THEN -1
        ELSE Digits(t, OptSep(t, Digits(t, RunEnd(t, close, Space), 3),
                    {"-", "."}), 4)

\* \b\d{3}-\d{2}-\d{4}\b
MatchSSN(t, i) ==
    IF WordBoundary(t, i)
    THEN EndBoundary(t,
           Digits(t, Lit(t, Digits(t, Lit(t, Digits(t, i, 3), "-"), 2), "-"), 4))
    ELSE -1

\* \b\d{4}[-\s]?\d{4}[-\s]?\d{4}[-\s]?\d{4}\b
MatchCreditCard(t, i) ==
    LET sep == Space \cup {"-"}
    IN  IF WordBoundary(t, i)
        THEN EndBoundary(t,
               Digits(t, OptSep(t, Digits(t, OptSep(t, Digits(t, OptSep(t,
                      Digits(t, i, 4), sep), 4), sep), 4), sep), 4))
        ELSE -1

\* \b\d{1,3}\.\d{1,3}\.\d{1,3}\.\d{1,3}\b
MatchIP(t, i) ==
    IF WordBoundary(t, i)
    THEN EndBoundary(t,
           Digits13(t, Lit(t, Digits13(t, Lit(t, Digits13(t, Lit(t,
                    Digits13(t, i), ".")), ".")), ".")))
    ELSE -1

\* https?://[^\s<>"{}|\\^`\[\]]*
MatchURL(t, i) ==
    LET h == Lit(t, Lit(t, Lit(t, Lit(t, i, "h"), "t"), "t"), "p")
        s == OptSep(t, h, {"s"})
        c == Lit(t, Lit(t, Lit(t, s, ":"), "/"), "/")
    IN  IF c < 0 THEN -1
        ELSE RunEnd(t, c, {t[k] : k \in 1 .. Len(t)} \ UrlStopChar)

MatchEnd(pat, t, i) ==
    CASE pat = "email"       -> MatchEmail(t, i)
      [] pat = "phone"       -> MatchPhone(t, i)
      [] pat = "phone_paren" -> MatchPhoneParen(t, i)
      [] pat = "ssn"         -> MatchSSN(t, i)
      [] pat = "credit_card" -> MatchCreditCard(t, i)
      [] pat = "ip"          -> MatchIP(t, i)
      [] pat = "url"         -> MatchURL(t, i)

\* the start of the leftmost match at or after offset i, or -1
NextMatch(pat, t, i) ==
    LET starts == {j \in i .. (Len(t) - 1) : MatchEnd(pat, t, j) > j}
    IN  IF starts = {} THEN -1 ELSE Min(starts)

\* re.sub(pattern, token, t): the leftmost non-overlapping matches, scanning
\* from offset i, each replaced by the token (no pattern matches empty)
RECURSIVE SubFrom(_, _, _, _)
SubFrom(pat, token, t, i) ==
    LET j == NextMatch(pat, t, i)
    IN  IF j < 0 THEN Slice(t, i, Len(t))
        ELSE Slice(t, i, j) \o token \o SubFrom(pat, token, t, MatchEnd(pat, t, j))

ReSub(pat, token, t) ==
    SubFrom(pat, token, t, 0)

\* the spans [s,e) re.finditer(pattern, t) yields from offset i on
RECURSIVE FindFrom(_, _, _)
FindFrom(pat, t, i) ==
    LET j == NextMatch(pat, t, i)
    IN  IF j < 0 THEN {}
        ELSE {<<j, MatchEnd(pat, t, j)>>} \cup FindFrom(pat, t, MatchEnd(pat, t, j))

\* ------------------------------------------------------------ the texts

\* str.strip()
RECURSIVE LStrip(_)
LStrip(t) ==
    IF t # <<>> /\ Head(t) \in Space THEN LStrip(Tail(t)) ELSE t

RECURSIVE RStrip(_)
RStrip(t) ==
    IF t # <<>> /\ t[Len(t)] \in Space THEN RStrip(SubSeq(t, 1, Len(t) - 1)) ELSE t

Strip(t) ==
    LStrip(RStrip(t))

\* the pieces the input texts of the model are put together from
Chunks ==
    { <<"J","o"," ","D","o">>,
      <<"j","o","@","e","x",".","c","o">>,
      <<"5","5","5","-","1","2","3","-","4","5","6","7">>,
      <<"(","5","5","5",")"," ","1","2","3","-","4","5","6","7">>,
      <<"1","2","3","-","4","5","-","6","7","8","9">>,
      <<"9","9","9",".","1",".","1",".","1">>,
      <<"h","t","t","p",":","/","/","x">> }

\* how many pieces a text is put together from, at most
MaxChunks == 2

RECURSIVE TextsOf(_)
TextsOf(n) ==
    IF n = 0 THEN {<<>>}
    ELSE LET shorter == TextsOf(n - 1)
         IN  shorter \cup {t \o c : t \in shorter, c \in Chunks}

\* a sentence with a name, an e-mail address and a phone number, as the
\* test document of test_api.py has them
SampleText ==
    <<"c","o","n","t","a","c","t"," ","J","o"," ","D","o"," ","a","t"," ",
      "j","o","@","e","x",".","c","o"," ","o","r"," ",
      "5","5","5","-","1","2","3","-","4","5","6","7",".">>

Texts ==
    TextsOf(MaxChunks) \cup {SampleText}

\* ------------------------------------------- the model-based analysis

\* a pair of capitalised words, as a name recogniser tags it
MatchPerson(t, i) ==
    LET a == RunEnd(t, i + 1, Lower)
        b == RunEnd(t, a + 2, Lower)
    IN  IF /\ WordBoundary(t, i) /\ CharAt(t, i) \in Upper
           /\ CharAt(t, a) = " " /\ CharAt(t, a + 1) \in Upper
           /\ WordBoundary(t, b)
        THEN b ELSE -1

RECURSIVE FindPerson(_, _)
FindPerson(t, i) ==
    LET starts == {j \in i .. (Len(t) - 1) : MatchPerson(t, j) > j}
    IN  IF starts = {} THEN {}
        ELSE {<<Min(starts), MatchPerson(t, Min(starts))>>}
             \cup FindPerson(t, MatchPerson(t, Min(starts)))

Result(type, s, e) ==
    [entity_type |-> type, start |-> s, end |-> e]

\* o.contains(r) of a recogniser result
Contains(o, r) ==
    o.start <= r.start /\ o.end >= r.end

\* The spans of t the recognisers of AnalyzerEngine tag, among the entities
\* asked for, one recogniser per kind.  An e-mail address is also tagged as
\* a URL (its domain) and its local part can be tagged as a name; no
\* recogniser reports the kind "SSN".  A result contained in another of its
\* own kind is dropped by the analyzer itself.
Candidates(t) ==
    LET emails == FindFrom("email", t, 0)
        at(sp) == CHOOSE k \in sp[1] .. sp[2] : CharAt(t, k) = "@"
        all ==
            {Result("EMAIL_ADDRESS", sp[1], sp[2]) : sp \in emails}
            \cup {Result("URL", at(sp) + 1, sp[2]) : sp \in emails}
            \cup {Result("PERSON", sp[1], at(sp)) : sp \in emails}
            \cup {Result("URL", sp[1], sp[2]) : sp \in FindFrom("url", t, 0)}
            \cup {Result("PHONE_NUMBER", sp[1], sp[2]) :
                     sp \in FindFrom("phone", t, 0) \cup FindFrom("phone_paren", t, 0)}
            \cup {Result("CREDIT_CARD", sp[1], sp[2]) : sp \in FindFrom("credit_card", t, 0)}
            \cup {Result("PERSON", sp[1], sp[2]) : sp \in FindPerson(t, 0)}
    IN  {r \in all : ~\E o \in all :
            o # r /\ o.entity_type = r.entity_type /\ Contains(o, r)}

\* the kinds whose recogniser the installed analyzer may or may not have
Kinds ==
    {"PERSON", "EMAIL_ADDRESS", "PHONE_NUMBER", "URL"}

\* the order of the recognisers: the analyzer reports recogniser by
\* recogniser, not by offset
KindRank ==
    [ PERSON |-> 1, EMAIL_ADDRESS |-> 2, PHONE_NUMBER |-> 3,
      CREDIT_CARD |-> 4, URL |-> 5 ]

ReportedBefore(a, b) ==
    \/ KindRank[a.entity_type] < KindRank[b.entity_type]
    \/ /\ a.entity_type = b.entity_type
       /\ a.start < b.start

RECURSIVE InReportOrder(_)
InReportOrder(S) ==
    IF S = {} THEN <<>>
    ELSE LET first == CHOOSE a \in S : \A b \in S \ {a} : ReportedBefore(a, b)
         IN  <<first>> \o InReportOrder(S \ {first})

\* _analyze_with_presidio: the results for t of an analyzer that has the
\* recognisers of the kinds in recognisers (and the one of credit cards)
AnalyzeWithPresidio(t, recognisers) ==
    InReportOrder({r \in Candidates(t) :
                      r.entity_type \in recognisers \cup {"CREDIT_CARD"}})

\* ----------------------------------------- the model-based replacement

TypeName ==
    [ EMAIL_ADDRESS |-> <<"E","M","A","I","L","_","A","D","D","R","E","S","S">>,
      PHONE_NUMBER  |-> <<"P","H","O","N","E","_","N","U","M","B","E","R">>,
      CREDIT_CARD   |-> <<"C","R","E","D","I","T","_","C","A","R","D">>,
      URL           |-> <<"U","R","L">>,
      PERSON        |-> <<"P","E","R","S","O","N">> ]

\* the default operator of AnonymizerEngine: replace by <ENTITY_TYPE>
PresidioToken(type) ==
    <<"<">> \o TypeName[type] \o <<">">>

\* the conflict resolution of AnonymizerEngine.anonymize: each result, in
\* list order, is dropped when one of the others (those kept so far and
\* those still to come) holds the same span or contains it
RECURSIVE RemoveConflicts(_, _)
RemoveConflicts(kept, rest) ==
    IF rest = <<>> THEN kept
    ELSE LET r == Head(rest)
             others == kept \o Tail(rest)
         IN  IF \E k \in 1 .. Len(others) : Contains(others[k], r)
             THEN RemoveConflicts(kept, Tail(rest))
             ELSE RemoveConflicts(Append(kept, r), Tail(rest))

\* the replacements, from the last result to the first; a result that
\* overlaps the one after it is cut at that one's start
RECURSIVE Operate(_, _, _)
Operate(out, ents, last) ==
    IF ents = {} THEN out
    ELSE LET e == CHOOSE x \in ents : \A y \in ents :
                      y.start < x.start \/ (y.start = x.start /\ y.end <= x.end)
             cut == IF e.end < last THEN e.end ELSE last
         IN  Operate(SubSeq(out, 1, e.start) \o PresidioToken(e.entity_type)
                         \o SubSeq(out, cut + 1, Len(out)),
                     ents \ {e}, e.start)

\* _anonymize_with_presidio
AnonymizeWithPresidio(t, analyzer_results) ==
    LET kept == RemoveConflicts(<<>>, analyzer_results)
    IN  Operate(t, {kept[k] : k \in 1 .. Len(kept)}, Len(t))

\* ------------------------------------------------- the scrubbing pass

\* Scrubber.clean: the filth it finds is replaced by {{KIND}}.  What it
\* finds is the library's: the installed scrubber finds the e-mail
\* addresses, or nothing, or raises.
ScrubadubClean(t, found) ==
    IF found = "email" THEN ReSub("email", <<"{","{","E","M","A","I","L","}","}">>, t) ELSE t

\* _anonymize_with_scrubadub: an exception of the library is swallowed and
\* the text handed in is returned
AnonymizeWithScrubadub(t, outcome) ==
    IF outcome = "raise" THEN t ELSE ScrubadubClean(t, outcome)

ScrubadubOutcomes ==
    {"raise", "none", "email"}

\* --------------------------------------------------- the pattern pass

\* _anonymize_with_anonympy: seven re.sub calls, each over the result of
\* the one before
AnonymizeWithAnonympy(t) ==
    LET t1 == ReSub("email", <<"[","E","M","A","I","L","]">>, t)
        t2 == ReSub("phone", <<"[","P","H","O","N","E","]">>, t1)
        t3 == ReSub("phone_paren", <<"[","P","H","O","N","E","]">>, t2)
        t4 == ReSub("ssn", <<"[","S","S","N","]">>, t3)
        t5 == ReSub("credit_card", <<"[","C","R","E","D","I","T","_","C","A","R","D","]">>, t4)
        t6 == ReSub("ip", <<"[","I","P","_","A","D","D","R","E","S","S","]">>, t5)
    IN  ReSub("url", <<"[","U","R","L","]">>, t6)

\* a mutant: the reported text is sliced out of the text after replacement
EntitiesFound_FromAnonymized(t, results) ==
    [k \in 1 .. Len(results) |->
        [ type       |-> results[k].entity_type,
          text       |-> Slice(AnonymizeWithPresidio(t, results),
                               results[k].start, results[k].end),
          start_char |-> results[k].start,
          end_char   |-> results[k].end ]]

\* entities_found: one entry per analyzer result, in the analyzer's order,
\* its text sliced out of the text handed to anonymize_text
EntitiesFound(t, results) ==
    [k \in 1 .. Len(results) |->
        [ type       |-> results[k].entity_type,
          text       |-> Slice(t, results[k].start, results[k].end),
          start_char |-> results[k].start,
          end_char   |-> results[k].end ]]

\* ------------------------------------------- the texts of the cascade

\* _fallback_extraction, line 168
CouldNotExtract ==
    <<"E","r","r","o","r",":"," ","C","o","u","l","d"," ","n","o","t"," ",
      "e","x","t","r","a","c","t"," ","t","e","x","t"," ","f","r","o","m",
      " ","t","h","e"," ","d","o","c","u","m","e","n","t",".">>

\* _extract_pdf_fallback, line 191
PdfExtractError ==
    <<"E","r","r","o","r",":"," ","C","o","u","l","d"," ","n","o","t"," ",
      "e","x","t","r","a","c","t"," ","t","e","x","t"," ","f","r","o","m",
      " ","P","D","F",".">>

\* _extract_pdf_fallback, line 194
PdfProcessError ==
    <<"E","r","r","o","r",":"," ","C","o","u","l","d"," ","n","o","t"," ",
      "p","r","o","c","e","s","s"," ","P","D","F"," ","f","i","l","e",".">>

\* _extract_word_document, line 219
DocxNotAvailable ==
    <<"E","r","r","o","r",":"," ","p","y","t","h","o","n","-","d","o","c",
      "x"," ","l","i","b","r","a","r","y"," ","n","o","t"," ","a","v","a",
      "i","l","a","b","l","e"," ","f","o","r"," ","W","o","r","d"," ","d",
      "o","c","u","m","e","n","t"," ","p","r","o","c","e","s","s","i","n",
      "g",".">>

\* _extract_word_document, line 237
NoTextInWord ==
    <<"N","o"," ","t","e","x","t"," ","f","o","u","n","d"," ","i","n"," ",
      "t","h","e"," ","W","o","r","d"," ","d","o","c","u","m","e","n","t",
      ".">>

\* _extract_word_document, line 243
WordExtractPrefix ==
    <<"E","r","r","o","r"," ","e","x","t","r","a","c","t","i","n","g"," ",
      "t","e","x","t"," ","f","r","o","m"," ","W","o","r","d"," ","d","o",
      "c","u","m","e","n","t",":"," ">>

\* _extract_word_document, line 246
WordProcessPrefix ==
    <<"E","r","r","o","r"," ","p","r","o","c","e","s","s","i","n","g"," ",
      "W","o","r","d"," ","d","o","c","u","m","e","n","t",":"," ">>

\* _extract_image_text, line 294
TesseractPrefix ==
    <<"E","r","r","o","r",":"," ","T","e","s","s","e","r","a","c","t"," ",
      "O","C","R"," ","i","s"," ","n","o","t"," ","a","v","a","i","l","a",
      "b","l","e","."," ","C","u","r","r","e","n","t"," ","p","a","t","h",
      ":"," ">>

\* _extract_image_text, line 294
TesseractInfix ==
    <<"."," ","E","r","r","o","r",":"," ">>

\* _extract_image_text, line 334
NoTextInImage ==
    <<"N","o"," ","t","e","x","t"," ","f","o","u","n","d"," ","i","n"," ",
      "t","h","e"," ","i","m","a","g","e",".">>

\* _extract_image_text, line 340
ImageExtractPrefix ==
    <<"E","r","r","o","r"," ","e","x","t","r","a","c","t","i","n","g"," ",
      "t","e","x","t"," ","f","r","o","m"," ","i","m","a","g","e",":"," ">>

\* _extract_image_text, line 343
ImageProcessPrefix ==
    <<"E","r","r","o","r"," ","p","r","o","c","e","s","s","i","n","g"," ",
      "i","m","a","g","e"," ","f","i","l","e",":"," ">>

\* pytesseract.pytesseract.tesseract_cmd when find_tesseract_path found none
TesseractCmd ==
    <<"t","e","s","s","e","r","a","c","t">>

\* a mutant: the message of the exception holds a URL
ErrMsg_WithUrl ==
    <<"s","e","e"," ","h","t","t","p",":","/","/","x">>

\* str(e) of an exception a library or the operating system raised
ErrMsg ==
    <<"f","a","i","l","e","d">>

\* ------------------------------------------------------- the file name

UpperSeq ==
    <<"A","B","C","D","E","F","G","H","I","J","K","L","M",
      "N","O","P","Q","R","S","T","U","V","W","X","Y","Z">>

LowerSeq ==
    <<"a","b","c","d","e","f","g","h","i","j","k","l","m",
      "n","o","p","q","r","s","t","u","v","w","x","y","z">>

\* str.lower()
ToLower(t) ==
    [k \in 1 .. Len(t) |->
        IF t[k] \in Upper
        THEN LowerSeq[CHOOSE i \in 1 .. 26 : UpperSeq[i] = t[k]]
        ELSE t[k]]

\* str.rfind(c): the last 0-based offset of c in t, or -1
RFind(t, c) ==
    LET at == {k \in 0 .. (Len(t) - 1) : CharAt(t, k) = c}
    IN  IF at = {} THEN -1 ELSE Max(at)

\* os.path.splitext(p)[1]: from the last dot of the last path component,
\* unless only dots stand before it in that component
SplitExt(p) ==
    LET sep == RFind(p, "/")
        dot == RFind(p, ".")
    IN  IF dot > sep /\ \E k \in (sep + 1) .. (dot - 1) : CharAt(p, k) # "."
        THEN Slice(p, dot, Len(p))
        ELSE <<>>

\* _get_file_extension
GetFileExtension(fname) ==
    IF SplitExt(fname) # <<>> THEN SplitExt(fname) ELSE <<".","t","x","t">>

ExtPdf ==
    {<<".","p","d","f">>}

ExtWord ==
    {<<".","d","o","c","x">>, <<".","d","o","c">>}

ExtText ==
    {<<".","t","x","t">>, <<".","m","d">>}

ExtImage ==
    {<<".","j","p","g">>, <<".","j","p","e","g">>, <<".","p","n","g">>,
     <<".","b","m","p">>, <<".","t","i","f","f">>, <<".","g","i","f">>,
     <<".","w","e","b","p">>}

\* bytes.decode('utf-8', errors='ignore'): the invalid bytes are dropped
IsValidByte(b) ==
    b \notin InvalidByte

Decode(bytes) ==
    SelectSeq(bytes, IsValidByte)

\* ------------------------------------------------- the Word document

\* str.replace(c, r) for a one-character c
RECURSIVE Replace(_, _, _)
Replace(t, c, r) ==
    IF t = <<>> THEN <<>>
    ELSE (IF Head(t) = c THEN r ELSE <<Head(t)>>) \o Replace(Tail(t), c, r)

\* sep.join(parts)
RECURSIVE Join(_, _)
Join(sep, parts) ==
    IF parts = <<>> THEN <<>>
    ELSE IF Len(parts) = 1 THEN parts[1]
    ELSE parts[1] \o sep \o Join(sep, Tail(parts))

\* "-" * n
Dashes(n) ==
    [k \in 1 .. n |-> "-"]

\* str(n) of a table number
DecimalOf(n) ==
    <<(<<"1","2","3","4","5","6","7","8","9">>)[n]>>

\* cell.text.strip().replace('\n', ' ').replace('\r', '')
CleanCell(cell_text) ==
    Replace(Replace(Strip(cell_text), "\n", <<" ">>), "\r", <<>>)

RowCells(row) ==
    [k \in 1 .. Len(row) |-> CleanCell(row[k])]

\* " | ".join(row_cells)
RowLine(row) ==
    Join(<<" ","|"," ">>, RowCells(row))

\* what a row appends to table_text: nothing when every cell is empty, the
\* line and a separator for the row of index 0, the line for the others
RowText(row, row_idx) ==
    IF \E k \in 1 .. Len(row) : Strip(RowCells(row)[k]) # <<>>
    THEN IF row_idx = 0
         THEN <<RowLine(row), Dashes(Len(RowLine(row)))>>
         ELSE <<RowLine(row)>>
    ELSE <<>>

RECURSIVE RowsText(_, _)
RowsText(rows, row_idx) ==
    IF rows = <<>> THEN <<>>
    ELSE RowText(Head(rows), row_idx) \o RowsText(Tail(rows), row_idx + 1)

\* f"\n--- Table {table_idx + 1} ---"
TableCaption(table_idx) ==
    <<"\n","-","-","-"," ","T","a","b","l","e"," ">> \o DecimalOf(table_idx + 1)
       \o <<" ","-","-","-">>

\* table_text of one table
TableText(table, table_idx) ==
    <<TableCaption(table_idx)>> \o RowsText(table, 0)

\* what the tables from index table_idx on add to text_parts
RECURSIVE TablesParts(_, _)
TablesParts(tables, table_idx) ==
    IF tables = <<>> THEN <<>>
    ELSE LET table_text == TableText(Head(tables), table_idx)
         IN  (IF Len(table_text) > 1 THEN table_text \o << <<>> >> ELSE <<>>)
             \o TablesParts(Tail(tables), table_idx + 1)

\* the non-empty paragraphs, stripped
RECURSIVE ParagraphsParts(_)
ParagraphsParts(paragraphs) ==
    IF paragraphs = <<>> THEN <<>>
    ELSE (IF Strip(Head(paragraphs)) # <<>> THEN <<Strip(Head(paragraphs))>>
          ELSE <<>>)
         \o ParagraphsParts(Tail(paragraphs))

\* _extract_docx_text
ExtractDocxText(doc) ==
    Join(<<"\n">>, ParagraphsParts(doc.paragraphs) \o TablesParts(doc.tables, 0))

\* the staged file is no Word document: Document(file_path) raises
NoDocument ==
    [valid |-> FALSE, paragraphs |-> <<>>, tables |-> <<>>]

MaxRows ==
    2

MaxTables ==
    2

\* the rows of the tables: all cells empty, one cell filled, a cell with a
\* line break in it, a single cell of white space
DocRows ==
    { << <<>>, <<>> >>,
      << <<"a">>, <<>> >>,
      << <<"a">>, <<" ","b","\n","c","\r">> >>,
      << <<" ">> >> }

RECURSIVE SeqsUpTo(_, _)
SeqsUpTo(S, n) ==
    IF n = 0 THEN {<<>>}
    ELSE LET shorter == SeqsUpTo(S, n - 1)
         IN  shorter \cup {Append(q, x) : q \in shorter, x \in S}

DocTables ==
    SeqsUpTo(DocRows, MaxRows) \ {<<>>}

DocParagraphs ==
    { <<>>, << <<" ">> >>, << <<"p"," ">>, <<>>, <<"q">> >> }

\* the Word documents of the model
Documents ==
    { [valid |-> TRUE, paragraphs |-> ps, tables |-> ts] :
         ps \in DocParagraphs, ts \in SeqsUpTo(DocTables, MaxTables) }

\* -------------------------------------------------------------- state

VARIABLES
    filename,              \* file.filename of the upload
    file_content,          \* the bytes of the upload
    strategy,              \* the form field
    installed,             \* the libraries the host has installed
    document,              \* what python-docx reads from the staged file
    tasks,                 \* the locals of each of the concurrent requests
    disk,                  \* the temporary files on disk: path to content
    docx_available,        \* DOCX_AVAILABLE, set when the module is imported
    tesseract_available,   \* whether pytesseract finds its engine on the host
    recognised,            \* the kinds the installed analyzer recognises
    scrubadub_finds,       \* what the installed scrubber does with a text
    pc,                    \* where the request is
    tmp_file,              \* the staged temporary file: none, exists, unlinked
    attempts,              \* the backends run so far, each with its outcome
    pending,               \* the text a backend returned, before the unlink
    retried,               \* extract_with_unstructured is in its last fallback
    extracted_text,        \* what the extraction entry point returned
    text,                  \* the argument of anonymize_text
    presidio_results,
    presidio_anonymized,
    scrubadub_anonymized,
    final_anonymized,
    entities_found,
    run,                   \* 1, or 2 when anonymize_text runs on its own output
    first_output,          \* the anonymized text of run 1
    response               \* what process_document answers

reqVars ==
    <<filename, file_content, strategy, installed, document, tasks, disk,
      docx_available,
      tesseract_available, recognised, scrubadub_finds>>

extVars ==
    <<tmp_file, attempts, pending, retried, extracted_text>>

piiVars ==
    <<text, presidio_results, presidio_anonymized, scrubadub_anonymized,
      final_anonymized, entities_found, run, first_output>>

vars ==
    <<filename, file_content, strategy, installed, document, tasks, disk,
      docx_available,
      tesseract_available,
      recognised, scrubadub_finds, pc, tmp_file, attempts, pending, retried, extracted_text,
      text, presidio_results, presidio_anonymized, scrubadub_anonymized,
      final_anonymized, entities_found, run, first_output, response>>

\* ------------------------------------------------------------- inputs

Filenames ==
    { <<>>,
      <<"a",".","p","d","f">>,
      <<"A",".","P","D","F">>,
      <<"a",".","d","o","c","x">>,
      <<"a",".","d","o","c">>,
      <<"a",".","p","n","g">>,
      <<"a",".","J","p","g">>,
      <<"a",".","t","x","t">>,
      <<"a",".","x","y","z">>,
      <<"a">>,
      <<".","p","d","f">> }

\* a file name for each of the image extensions of the dispatch
ImageFilenames ==
    {<<"a">> \o e : e \in ExtImage}

Strategies ==
    {"unstructured", "marker"}

\* the uploads: empty, plain, with personal data, with a byte that is no UTF-8
FileContents ==
    { <<>>,
      <<"h","e","l","l","o">>,
      <<"j","o","@","e","x",".","c","o">>,
      <<"1","2","3","-","4","5","-","6","7","8","9">>,
      <<"h","\\xff","i">> }

\* what a Word reader or an OCR engine hands back, before str.strip()
RawTexts ==
    { <<>>,
      <<"\n">>,
      <<"J","o"," ","D","o","\n">>,
      <<"j","o","@","e","x",".","c","o">> }

\* what _pdfplumber_extract and _pypdf2_extract return: stripped text
PdfTexts ==
    {Strip(t) : t \in RawTexts}

NoResponse ==
    [ status |-> 0, detail |-> "", extraction_engine |-> "",
      file_size_bytes |-> 0, layout_preserved_text |-> <<>>,
      anonymized_text |-> <<>>, entities_found |-> <<>>,
      anonymization_count |-> 0 ]

InitExtraction ==
    /\ tmp_file = "none"
    /\ attempts = <<>>
    /\ pending = <<>>
    /\ retried = FALSE
    /\ extracted_text = <<>>

InitPII ==
    /\ text = <<>>
    /\ presidio_results = <<>>
    /\ presidio_anonymized = <<>>
    /\ scrubadub_anonymized = <<>>
    /\ final_anonymized = <<>>
    /\ entities_found = <<>>
    /\ run = 1
    /\ first_output = <<>>

\* the third-party libraries the three modules import, and the language
\* model AnalyzerEngine() loads when it is constructed
Libraries ==
    {"PIL", "pytesseract", "pdfplumber", "PyPDF2", "docx",
     "presidio_analyzer", "presidio_anonymizer", "scrubadub", "spacy_model"}

\* what a host that serves requests has installed: the service is up, so
\* every library but the optional Word reader is there
InstalledOn(docx) ==
    IF docx THEN Libraries ELSE Libraries \ {"docx"}

\* the hosts a request is served on: what is installed there
Hosts ==
    { [docx |-> TRUE,  tesseract |-> TRUE,  recognised |-> Kinds, scrubadub |-> "email"],
      [docx |-> TRUE,  tesseract |-> TRUE,  recognised |-> {},    scrubadub |-> "none"],
      [docx |-> TRUE,  tesseract |-> FALSE, recognised |-> {},    scrubadub |-> "raise"],
      [docx |-> FALSE, tesseract |-> FALSE, recognised |-> Kinds, scrubadub |-> "none"] }

\* a request as process_document receives it
Init ==
    /\ filename \in Filenames
    /\ file_content \in FileContents
    /\ strategy \in Strategies
    /\ \E h \in Hosts :
          /\ docx_available = h.docx
          /\ installed = InstalledOn(h.docx)
          /\ document = NoDocument
          /\ tasks = <<>>
          /\ disk = <<>>
          /\ tesseract_available = h.tesseract
          /\ recognised = h.recognised
          /\ scrubadub_finds = h.scrubadub
    /\ pc = "start"
    /\ InitExtraction
    /\ InitPII
    /\ response = NoResponse

\* ------------------------------------------------ the extraction cascade

Ret(v) ==
    [kind |-> "return", value |-> v]

Raise ==
    [kind |-> "raise", value |-> <<>>]

Attempt(backend, ok, out) ==
    [backend |-> backend, ok |-> ok, out |-> out]

\* the try/except of _fallback_extraction around the dispatch
FallbackExcept(r) ==
    IF r.kind = "raise" THEN Ret(CouldNotExtract) ELSE r

\* A path of the cascade ends with outcome r.  It passes the except clause
\* of _fallback_extraction; an exception that were to leave it is caught
\* once by extract_with_unstructured, which calls the fallback again, and
\* leaves the entry point the second time.
Returns(r) ==
    LET r2 == FallbackExcept(r)
    IN  IF r2.kind = "return"
        THEN /\ pc' = "extract_done"
             /\ extracted_text' = r2.value
             /\ retried' = retried
        ELSE IF ~retried
        THEN /\ pc' = "fallback"
             /\ retried' = TRUE
             /\ extracted_text' = extracted_text
        ELSE /\ pc' = "extract_raised"
             /\ retried' = retried
             /\ extracted_text' = extracted_text

\* extract_with_marker: hands over to extract_with_unstructured
ExtractWithMarker ==
    /\ pc = "extract_marker"
    /\ pc' = "extract_unstructured"
    /\ UNCHANGED <<reqVars, extVars, piiVars, response>>

\* extract_with_unstructured: partition is None, so the fallback is called
ExtractWithUnstructured ==
    /\ pc = "extract_unstructured"
    /\ pc' = "fallback"
    /\ UNCHANGED <<reqVars, extVars, piiVars, response>>

\* a mutant: the dispatch compares the extension as it is written
FallbackExtraction_CaseSensitive ==
    /\ pc = "fallback"
    /\ LET file_ext == GetFileExtension(filename)
       IN  \/ /\ file_ext \in ExtPdf
              /\ pc' = "pdf_create"
              /\ UNCHANGED <<extracted_text, retried>>
           \/ /\ file_ext \in ExtWord
              /\ pc' = "word_check"
              /\ UNCHANGED <<extracted_text, retried>>
           \/ /\ file_ext \in ExtImage
              /\ pc' = "image_check"
              /\ UNCHANGED <<extracted_text, retried>>
           \/ /\ file_ext \notin ExtPdf \cup ExtWord \cup ExtImage
              /\ Returns(Ret(Decode(file_content)))
    /\ UNCHANGED <<reqVars, tmp_file, attempts, pending, piiVars, response>>

\* _fallback_extraction: the dispatch on the lower-cased extension
FallbackExtraction ==
    /\ pc = "fallback"
    /\ LET file_ext == ToLower(GetFileExtension(filename))
       IN  \/ /\ file_ext \in ExtPdf
              /\ pc' = "pdf_create"
              /\ UNCHANGED <<extracted_text, retried>>
           \/ /\ file_ext \in ExtWord
              /\ pc' = "word_check"
              /\ UNCHANGED <<extracted_text, retried>>
           \/ /\ file_ext \in ExtImage
              /\ pc' = "image_check"
              /\ UNCHANGED <<extracted_text, retried>>
           \/ /\ file_ext \in ExtText
              /\ Returns(Ret(Decode(file_content)))
           \/ /\ file_ext \notin ExtPdf \cup ExtWord \cup ExtText \cup ExtImage
              /\ Returns(Ret(Decode(file_content)))
    /\ UNCHANGED <<reqVars, tmp_file, attempts, pending, piiVars, response>>

\* tempfile.NamedTemporaryFile(delete=False): the file is on disk once the
\* call returns; the call can fail and leave none
CreateTemp(at, next, onError) ==
    /\ pc = at
    /\ \/ /\ tmp_file' = "exists"
          /\ pc' = next
          /\ UNCHANGED <<extracted_text, retried>>
       \/ /\ tmp_file' = tmp_file
          /\ Returns(onError)
    /\ UNCHANGED <<reqVars, attempts, pending, piiVars, response>>

\* temp_file.write(file_content) and the end of the with block, which
\* closes the file and, with delete=False, leaves it on disk
WriteTemp(at, next, onError) ==
    /\ pc = at
    /\ \/ /\ pc' = next
          /\ UNCHANGED <<extracted_text, retried>>
       \/ Returns(onError)
    /\ UNCHANGED <<reqVars, tmp_file, attempts, pending, piiVars, response>>

\* a backend run in the executor: it returns a text or raises
RunBackend(at, backend, outputs, next, onRaise) ==
    /\ pc = at
    /\ \/ \E out \in outputs :
             /\ attempts' = Append(attempts, Attempt(backend, TRUE, out))
             /\ pending' = out
             /\ pc' = next
       \/ /\ attempts' = Append(attempts, Attempt(backend, FALSE, <<>>))
          /\ pending' = pending
          /\ pc' = onRaise
    /\ UNCHANGED <<reqVars, tmp_file, retried, extracted_text, piiVars, response>>

\* ---- _extract_pdf_fallback

\* a mutant: the outer except clause returns an empty string
PdfOuterExcept_Empty ==
    Ret(<<>>)

\* the outer except clause
PdfOuterExcept ==
    Ret(PdfProcessError)

PdfCreateTemp ==
    CreateTemp("pdf_create", "pdf_write", PdfOuterExcept)

PdfWriteTemp ==
    WriteTemp("pdf_write", "pdf_plumber", PdfOuterExcept)

PdfPlumber ==
    RunBackend("pdf_plumber", "pdfplumber", PdfTexts, "pdf_unlink1", "pdf_pypdf2")

\* os.unlink after pdfplumber, inside the try whose except runs PyPDF2
PdfUnlinkAfterPlumber ==
    /\ pc = "pdf_unlink1"
    /\ \/ /\ tmp_file' = "unlinked"
          /\ Returns(Ret(pending))
       \/ /\ tmp_file' = tmp_file
          /\ pc' = "pdf_pypdf2"
          /\ UNCHANGED <<extracted_text, retried>>
    /\ UNCHANGED <<reqVars, attempts, pending, piiVars, response>>

PdfPyPDF2 ==
    RunBackend("pdf_pypdf2", "pypdf2", PdfTexts, "pdf_unlink2", "pdf_unlink3")

\* os.unlink after PyPDF2, inside the inner try
PdfUnlinkAfterPyPDF2 ==
    /\ pc = "pdf_unlink2"
    /\ \/ /\ tmp_file' = "unlinked"
          /\ Returns(Ret(pending))
       \/ /\ tmp_file' = tmp_file
          /\ pc' = "pdf_unlink3"
          /\ UNCHANGED <<extracted_text, retried>>
    /\ UNCHANGED <<reqVars, attempts, pending, piiVars, response>>

\* the inner except clause: unlink, then the sentinel
PdfInnerExcept ==
    /\ pc = "pdf_unlink3"
    /\ \/ /\ tmp_file' = "unlinked"
          /\ Returns(Ret(PdfExtractError))
       \/ /\ tmp_file' = tmp_file
          /\ Returns(PdfOuterExcept)
    /\ UNCHANGED <<reqVars, attempts, pending, piiVars, response>>

\* ---- _extract_word_document

\* the outer except clause
WordOuterExcept ==
    Ret(WordProcessPrefix \o ErrMsg)

\* the check of DOCX_AVAILABLE
WordCheck ==
    /\ pc = "word_check"
    /\ IF docx_available
       THEN pc' = "word_create" /\ UNCHANGED <<extracted_text, retried>>
       ELSE Returns(Ret(DocxNotAvailable))
    /\ UNCHANGED <<reqVars, tmp_file, attempts, pending, piiVars, response>>

WordCreateTemp ==
    CreateTemp("word_create", "word_write", WordOuterExcept)

WordWriteTemp ==
    WriteTemp("word_write", "word_docx", WordOuterExcept)

WordExtractDocx ==
    RunBackend("word_docx", "docx", RawTexts, "word_unlink", "word_except")

\* os.unlink, then the stripped text or the "no text" sentinel
WordUnlink ==
    /\ pc = "word_unlink"
    /\ \/ /\ tmp_file' = "unlinked"
          /\ Returns(Ret(IF Strip(pending) # <<>> THEN Strip(pending)
                         ELSE NoTextInWord))
       \/ /\ tmp_file' = tmp_file
          /\ pc' = "word_except"
          /\ UNCHANGED <<extracted_text, retried>>
    /\ UNCHANGED <<reqVars, attempts, pending, piiVars, response>>

\* the inner except clause: unlink if the file is there, then the sentinel
WordInnerExcept ==
    /\ pc = "word_except"
    /\ \/ /\ tmp_file' = IF tmp_file = "exists" THEN "unlinked" ELSE tmp_file
          /\ Returns(Ret(WordExtractPrefix \o ErrMsg))
       \/ /\ tmp_file = "exists"
          /\ tmp_file' = tmp_file
          /\ Returns(WordOuterExcept)
    /\ UNCHANGED <<reqVars, attempts, pending, piiVars, response>>

\* ---- _extract_image_text

\* the outer except clause
ImageOuterExcept ==
    Ret(ImageProcessPrefix \o ErrMsg)

\* pytesseract.get_tesseract_version(): without the engine, the sentinel
ImageCheck ==
    /\ pc = "image_check"
    /\ IF tesseract_available
       THEN pc' = "image_create" /\ UNCHANGED <<extracted_text, retried>>
       ELSE Returns(Ret(TesseractPrefix \o TesseractCmd \o TesseractInfix
                        \o ErrMsg))
    /\ UNCHANGED <<reqVars, tmp_file, attempts, pending, piiVars, response>>

ImageCreateTemp ==
    CreateTemp("image_create", "image_write", ImageOuterExcept)

ImageWriteTemp ==
    WriteTemp("image_write", "image_open", ImageOuterExcept)

\* Image.open and the conversion to RGB
ImageOpen ==
    /\ pc = "image_open"
    /\ \/ pc' = "image_ocr1"
       \/ pc' = "image_except"
    /\ UNCHANGED <<reqVars, extVars, piiVars, response>>

\* a mutant: the reduced pack also runs after the primary pack returned
ImageOcrPrimary_AlwaysRetry ==
    RunBackend("image_ocr1", "ocr_vie_eng", RawTexts, "image_ocr2", "image_ocr2")

\* image_to_string with 'vie+eng'
ImageOcrPrimary ==
    RunBackend("image_ocr1", "ocr_vie_eng", RawTexts, "image_unlink", "image_ocr2")

\* image_to_string with 'eng', in the except clause of the first
ImageOcrReduced ==
    RunBackend("image_ocr2", "ocr_eng", RawTexts, "image_unlink", "image_except")

\* os.unlink, then the stripped text or the "no text" sentinel
ImageUnlink ==
    /\ pc = "image_unlink"
    /\ \/ /\ tmp_file' = "unlinked"
          /\ Returns(Ret(IF Strip(pending) # <<>> THEN Strip(pending)
                         ELSE NoTextInImage))
       \/ /\ tmp_file' = tmp_file
          /\ pc' = "image_except"
          /\ UNCHANGED <<extracted_text, retried>>
    /\ UNCHANGED <<reqVars, attempts, pending, piiVars, response>>

\* the inner except clause: unlink if the file is there, then the sentinel
ImageInnerExcept ==
    /\ pc = "image_except"
    /\ \/ /\ tmp_file' = IF tmp_file = "exists" THEN "unlinked" ELSE tmp_file
          /\ Returns(Ret(ImageExtractPrefix \o ErrMsg))
       \/ /\ tmp_file = "exists"
          /\ tmp_file' = tmp_file
          /\ Returns(ImageOuterExcept)
    /\ UNCHANGED <<reqVars, attempts, pending, piiVars, response>>

ExtractNext ==
    \/ ExtractWithMarker
    \/ ExtractWithUnstructured
    \/ FallbackExtraction
    \/ PdfCreateTemp
    \/ PdfWriteTemp
    \/ PdfPlumber
    \/ PdfUnlinkAfterPlumber
    \/ PdfPyPDF2
    \/ PdfUnlinkAfterPyPDF2
    \/ PdfInnerExcept
    \/ WordCheck
    \/ WordCreateTemp
    \/ WordWriteTemp
    \/ WordExtractDocx
    \/ WordUnlink
    \/ WordInnerExcept
    \/ ImageCheck
    \/ ImageCreateTemp
    \/ ImageWriteTemp
    \/ ImageOpen
    \/ ImageOcrPrimary
    \/ ImageOcrReduced
    \/ ImageUnlink
    \/ ImageInnerExcept

\* the extraction entry points called with any upload, on any host
InitExtract ==
    /\ filename \in (Filenames \ {<<>>}) \cup ImageFilenames
    /\ file_content \in FileContents
    /\ strategy \in Strategies
    /\ docx_available \in BOOLEAN
    /\ installed = InstalledOn(docx_available)
    /\ document = NoDocument
    /\ tasks = <<>>
    /\ disk = <<>>
    /\ tesseract_available \in BOOLEAN
    /\ recognised = Kinds
    /\ scrubadub_finds = "none"
    /\ pc = IF strategy = "marker" THEN "extract_marker" ELSE "extract_unstructured"
    /\ InitExtraction
    /\ InitPII
    /\ response = NoResponse

SpecExtract ==
    InitExtract /\ [][ExtractNext]_vars

\* ---- _extract_docx_text on a given document

\* _extract_docx_text in the executor: Document(file_path) raises when the
\* staged file is no Word document, and the text is rendered otherwise
ExtractDocx ==
    /\ pc = "word_docx"
    /\ IF document.valid
       THEN /\ attempts' = Append(attempts,
                                  Attempt("docx", TRUE, ExtractDocxText(document)))
            /\ pending' = ExtractDocxText(document)
            /\ pc' = "word_unlink"
       ELSE /\ attempts' = Append(attempts, Attempt("docx", FALSE, <<>>))
            /\ pending' = pending
            /\ pc' = "word_except"
    /\ UNCHANGED <<reqVars, tmp_file, retried, extracted_text, piiVars, response>>

DocxNext ==
    \/ WordCheck
    \/ WordCreateTemp
    \/ WordWriteTemp
    \/ ExtractDocx
    \/ WordUnlink
    \/ WordInnerExcept

\* _extract_word_document called for an upload that holds a given document
InitDocx ==
    /\ filename = <<"a",".","d","o","c","x">>
    /\ file_content = <<"h","e","l","l","o">>
    /\ strategy = "unstructured"
    /\ installed = Libraries
    /\ document \in Documents \cup {NoDocument}
    /\ tasks = <<>>
    /\ disk = <<>>
    /\ docx_available = TRUE
    /\ tesseract_available = TRUE
    /\ recognised = Kinds
    /\ scrubadub_finds = "none"
    /\ pc = "word_check"
    /\ InitExtraction
    /\ InitPII
    /\ response = NoResponse

SpecDocx ==
    InitDocx /\ [][DocxNext]_vars

\* ---- cancellation

\* the awaits between the staging of the temporary file and its unlink:
\* each run_in_executor call of a backend
AwaitPoints ==
    {"pdf_plumber", "pdf_pypdf2", "word_docx", "image_ocr1", "image_ocr2"}

\* The task of the request is cancelled while it waits for a backend:
\* CancelledError is raised at the await.  It is a BaseException, so none
\* of the "except Exception" clauses of the cascade runs and it leaves the
\* entry point.  (Where the interpreter still derives it from Exception,
\* it is one more exception of the backend, which RunBackend covers.)
Cancel ==
    /\ pc \in AwaitPoints
    /\ pc' = "extract_cancelled"
    /\ UNCHANGED <<reqVars, extVars, piiVars, response>>

\* the extraction entry points, with a caller that may cancel the request
SpecCancel ==
    InitExtract /\ [][ExtractNext \/ Cancel]_vars

\* ------------------------------------------------------ anonymize_text

\* the analysis in the executor: a list of results, or an exception, which
\* anonymize_text wraps and raises again
PiiAnalyze ==
    /\ pc = "pii_analyze"
    /\ \/ /\ presidio_results' = AnalyzeWithPresidio(text, recognised)
          /\ pc' = "pii_presidio"
       \/ /\ presidio_results' = presidio_results
          /\ pc' = "pii_raised"
    /\ UNCHANGED <<reqVars, extVars, text, presidio_anonymized,
                   scrubadub_anonymized, final_anonymized, entities_found,
                   run, first_output, response>>

\* the replacement of the analyzer's results in the executor
PiiPresidio ==
    /\ pc = "pii_presidio"
    /\ \/ /\ presidio_anonymized' = AnonymizeWithPresidio(text, presidio_results)
          /\ pc' = "pii_scrubadub"
       \/ /\ presidio_anonymized' = presidio_anonymized
          /\ pc' = "pii_raised"
    /\ UNCHANGED <<reqVars, extVars, text, presidio_results,
                   scrubadub_anonymized, final_anonymized, entities_found,
                   run, first_output, response>>

\* the scrubbing pass over the output of the replacement
PiiScrubadub ==
    /\ pc = "pii_scrubadub"
    /\ scrubadub_anonymized' =
          AnonymizeWithScrubadub(presidio_anonymized, scrubadub_finds)
    /\ pc' = "pii_anonympy"
    /\ UNCHANGED <<reqVars, extVars, text, presidio_results,
                   presidio_anonymized, final_anonymized, entities_found,
                   run, first_output, response>>

\* a mutant: the pattern pass is left out when the strategy is 'marker'
PiiAnonympy_MarkerSkipsPatterns ==
    /\ pc = "pii_anonympy"
    /\ final_anonymized' = IF strategy = "marker" THEN scrubadub_anonymized
                            ELSE AnonymizeWithAnonympy(scrubadub_anonymized)
    /\ entities_found' = EntitiesFound(text, presidio_results)
    /\ pc' = "pii_done"
    /\ UNCHANGED <<reqVars, extVars, text, presidio_results,
                   presidio_anonymized, scrubadub_anonymized,
                   run, first_output, response>>

\* the pattern pass over the output of the scrubbing pass, then the entity
\* list and the return
PiiAnonympy ==
    /\ pc = "pii_anonympy"
    /\ final_anonymized' = AnonymizeWithAnonympy(scrubadub_anonymized)
    /\ entities_found' = EntitiesFound(text, presidio_results)
    /\ pc' = "pii_done"
    /\ UNCHANGED <<reqVars, extVars, text, presidio_results,
                   presidio_anonymized, scrubadub_anonymized,
                   run, first_output, response>>

\* anonymize_text called on the anonymized text it returned
Reanonymize ==
    /\ pc = "pii_done"
    /\ run = 1
    /\ run' = 2
    /\ first_output' = final_anonymized
    /\ text' = final_anonymized
    /\ presidio_results' = <<>>
    /\ presidio_anonymized' = <<>>
    /\ scrubadub_anonymized' = <<>>
    /\ final_anonymized' = <<>>
    /\ entities_found' = <<>>
    /\ pc' = "pii_analyze"
    /\ UNCHANGED <<reqVars, extVars, response>>

PiiNext ==
    \/ PiiAnalyze
    \/ PiiPresidio
    \/ PiiScrubadub
    \/ PiiAnonympy

\* anonymize_text called with any text
InitAnonymize ==
    /\ filename = <<>>
    /\ file_content = <<>>
    /\ strategy = "unstructured"
    /\ docx_available = TRUE
    /\ installed = Libraries
    /\ document = NoDocument
    /\ tasks = <<>>
    /\ disk = <<>>
    /\ tesseract_available = TRUE
    /\ recognised \in SUBSET Kinds
    /\ scrubadub_finds \in ScrubadubOutcomes
    /\ pc = "pii_analyze"
    /\ InitExtraction
    /\ text \in Texts
    /\ presidio_results = <<>>
    /\ presidio_anonymized = <<>>
    /\ scrubadub_anonymized = <<>>
    /\ final_anonymized = <<>>
    /\ entities_found = <<>>
    /\ run = 1
    /\ first_output = <<>>
    /\ response = NoResponse

SpecPII ==
    InitAnonymize /\ [][PiiNext \/ Reanonymize]_vars

\* ---------------------------------------------------- process_document

\* the check of file.filename; its HTTPException(400) is raised inside the
\* try, whose "except Exception" turns it into the 500 of a failed pipeline
Validate ==
    /\ pc = "start"
    /\ IF filename = <<>>
       THEN /\ pc' = "responded"
            /\ response' = [NoResponse EXCEPT
                   !.status = 500,
                   !.detail = "Processing failed: 400: No file provided"]
       ELSE /\ pc' = "read"
            /\ response' = response
    /\ UNCHANGED <<reqVars, extVars, piiVars>>

\* await file.read(), then the choice of the entry point by the strategy
ReadFile ==
    /\ pc = "read"
    /\ pc' = IF strategy = "marker" THEN "extract_marker"
             ELSE "extract_unstructured"
    /\ UNCHANGED <<reqVars, extVars, piiVars, response>>

\* the extracted text is handed to anonymize_text
CallAnonymize ==
    /\ pc = "extract_done"
    /\ text' = extracted_text
    /\ pc' = "pii_analyze"
    /\ UNCHANGED <<reqVars, extVars, presidio_results, presidio_anonymized,
                   scrubadub_anonymized, final_anonymized, entities_found,
                   run, first_output, response>>

\* the response of a request whose pipeline completed
Respond ==
    /\ pc = "pii_done"
    /\ response' =
          [ status |-> 200, detail |-> "",
            extraction_engine |-> strategy,
            file_size_bytes |-> Len(file_content),
            layout_preserved_text |-> extracted_text,
            anonymized_text |-> final_anonymized,
            entities_found |-> entities_found,
            anonymization_count |-> Len(entities_found) ]
    /\ pc' = "responded"
    /\ UNCHANGED <<reqVars, extVars, piiVars>>

\* the except clause of process_document: any exception becomes a 500
RespondFailure ==
    /\ pc = "pii_raised"
    /\ response' = [NoResponse EXCEPT
           !.status = 500,
           !.detail = "Processing failed: PII anonymization failed"]
    /\ pc' = "responded"
    /\ UNCHANGED <<reqVars, extVars, piiVars>>

Next ==
    \/ Validate
    \/ ReadFile
    \/ ExtractNext
    \/ CallAnonymize
    \/ PiiNext
    \/ Respond
    \/ RespondFailure

Spec ==
    Init /\ [][Next]_vars

\* ------------------------------------------------------------- start-up

\* what the import of services.text_extraction needs: its imports of PIL,
\* pytesseract, pdfplumber and PyPDF2 are not guarded
TextExtractionImports ==
    {"PIL", "pytesseract", "pdfplumber", "PyPDF2"}

\* what the import of services.pii_anonymization needs
PiiImports ==
    {"presidio_analyzer", "presidio_anonymizer", "scrubadub"}

\* main.py line 8: the module body of services.text_extraction runs; a
\* missing library is an ImportError that ends the start-up, but for docx,
\* whose import is guarded and sets DOCX_AVAILABLE
ImportTextExtraction ==
    /\ pc = "import_text_extraction"
    /\ IF TextExtractionImports \subseteq installed
       THEN /\ docx_available' = ("docx" \in installed)
            /\ pc' = "import_pii"
       ELSE /\ docx_available' = docx_available
            /\ pc' = "startup_failed"
    /\ UNCHANGED <<filename, file_content, strategy, installed, document,
                   tasks, disk, tesseract_available, recognised, scrubadub_finds,
                   extVars, piiVars, response>>

\* main.py line 9: the module body of services.pii_anonymization runs
ImportPII ==
    /\ pc = "import_pii"
    /\ pc' = IF PiiImports \subseteq installed THEN "construct"
             ELSE "startup_failed"
    /\ UNCHANGED <<reqVars, extVars, piiVars, response>>

\* main.py lines 13-14: the two services are constructed; AnalyzerEngine()
\* loads its language model and raises without it
ConstructServices ==
    /\ pc = "construct"
    /\ pc' = IF "spacy_model" \in installed THEN "start" ELSE "startup_failed"
    /\ UNCHANGED <<reqVars, extVars, piiVars, response>>

StartupNext ==
    \/ ImportTextExtraction
    \/ ImportPII
    \/ ConstructServices

\* the service is started on a host with any of the libraries missing, and
\* a request is then sent to it
InitStartup ==
    /\ filename \in {<<"a",".","t","x","t">>, <<"a",".","p","d","f">>,
                      <<"a",".","d","o","c","x">>, <<"a",".","p","n","g">>}
    /\ file_content = <<"j","o","@","e","x",".","c","o">>
    /\ strategy \in Strategies
    /\ installed \in SUBSET Libraries
    /\ document = NoDocument
    /\ tasks = <<>>
    /\ disk = <<>>
    /\ docx_available = FALSE
    /\ tesseract_available \in BOOLEAN
    /\ recognised = Kinds
    /\ scrubadub_finds = "email"
    /\ pc = "import_text_extraction"
    /\ InitExtraction
    /\ InitPII
    /\ response = NoResponse

SpecStartup ==
    InitStartup /\ [][StartupNext \/ Next]_vars

\* ------------------------------------------------- concurrent requests

MaxRequests ==
    2

\* the requests the event loop serves at the same time
Requests ==
    1 .. MaxRequests

\* the names tempfile can give a new file
Paths ==
    {"tmp_a", "tmp_b", "tmp_c"}

ConcFilenames ==
    {<<"a",".","p","d","f">>, <<"a",".","t","x","t">>}

\* uploads: two with personal data in them, one only PyPDF2 can parse,
\* one no PDF reader can parse
ConcContents ==
    { <<"j","o","@","e","x",".","c","o">>,
      <<"J","o"," ","D","o">>,
      <<"\\xfe","h","i">>,
      <<"\\xff">> }

\* what _pdfplumber_extract and _pypdf2_extract make of the bytes of the
\* file they open: its text, stripped, or an exception for a file the
\* backend cannot parse
PdfReads(backend, content) ==
    IF \/ \E k \in 1 .. Len(content) : content[k] = "\\xff"
       \/ backend = "pdfplumber" /\ \E k \in 1 .. Len(content) : content[k] = "\\xfe"
    THEN Raise
    ELSE Ret(Strip(Decode(content)))

\* the locals of process_document and of the calls below it, at its start
NewTask(fname, content) ==
    [ pc |-> "start", filename |-> fname, file_content |-> content,
      temp_file_path |-> "", pending |-> <<>>, extracted_text |-> <<>>,
      presidio_results |-> <<>>, presidio_anonymized |-> <<>>,
      scrubadub_anonymized |-> <<>>, final_anonymized |-> <<>>,
      entities_found |-> <<>>, stages |-> <<>>, shared_disk |-> FALSE,
      response |-> NoResponse ]

\* everything but the requests' locals and the disk
soloVars ==
    <<filename, file_content, strategy, installed, document, docx_available,
      tesseract_available, recognised, scrubadub_finds, pc, extVars, piiVars,
      response>>

\* os.unlink(path)
Unlinked(path) ==
    [q \in (DOMAIN disk) \ {path} |-> disk[q]]

\* process_document up to the call of the extraction entry point
CRead(r) ==
    /\ tasks[r].pc = "start"
    /\ tasks' = [tasks EXCEPT ![r].pc = "fallback",
                              ![r].stages = Append(@, "extract")]
    /\ UNCHANGED <<disk, soloVars>>

\* _fallback_extraction: the PDF chain, or the decode of the upload
CDispatch(r) ==
    /\ tasks[r].pc = "fallback"
    /\ IF ToLower(GetFileExtension(tasks[r].filename)) \in ExtPdf
       THEN tasks' = [tasks EXCEPT ![r].pc = "pdf_create"]
       ELSE tasks' = [tasks EXCEPT
                         ![r].pc = "pii_analyze",
                         ![r].extracted_text = Decode(tasks[r].file_content)]
    /\ UNCHANGED <<disk, soloVars>>

\* a mutant: the upload is staged under one fixed name
CStage_FixedPath(r) ==
    /\ tasks[r].pc = "pdf_create"
    /\ disk' = ("tmp_a" :> tasks[r].file_content) @@ disk
    /\ tasks' = [tasks EXCEPT ![r].pc = "pdf_plumber",
                              ![r].temp_file_path = "tmp_a"]
    /\ UNCHANGED soloVars

\* NamedTemporaryFile(delete=False) and the write: a file of a name that
\* is not on disk yet is created and holds the upload of this request
CStage(r) ==
    /\ tasks[r].pc = "pdf_create"
    /\ \E path \in Paths \ DOMAIN disk :
          /\ disk' = (path :> tasks[r].file_content) @@ disk
          /\ tasks' = [tasks EXCEPT ![r].pc = "pdf_plumber",
                                    ![r].temp_file_path = path]
    /\ UNCHANGED soloVars

\* a PDF backend in the executor: it opens the file of the path it was given
CBackend(r, backend, at, next, onRaise) ==
    /\ tasks[r].pc = at
    /\ LET path == tasks[r].temp_file_path
           res == IF path \in DOMAIN disk THEN PdfReads(backend, disk[path])
                  ELSE Raise
       IN  tasks' = [tasks EXCEPT
              ![r].pc = IF res.kind = "return" THEN next ELSE onRaise,
              ![r].pending = IF res.kind = "return" THEN res.value ELSE @,
              ![r].shared_disk = @ \/ Cardinality(DOMAIN disk) > 1]
    /\ UNCHANGED <<disk, soloVars>>

CPlumber(r) ==
    CBackend(r, "pdfplumber", "pdf_plumber", "pdf_unlink1", "pdf_pypdf2")

CPyPDF2(r) ==
    CBackend(r, "pypdf2", "pdf_pypdf2", "pdf_unlink2", "pdf_unlink3")

\* os.unlink and the return of the text; a path that is not on disk makes
\* os.unlink raise
CUnlink(r, at, onRaise) ==
    /\ tasks[r].pc = at
    /\ IF tasks[r].temp_file_path \in DOMAIN disk
       THEN /\ disk' = Unlinked(tasks[r].temp_file_path)
            /\ tasks' = [tasks EXCEPT ![r].pc = "pii_analyze",
                                      ![r].extracted_text = tasks[r].pending]
       ELSE /\ disk' = disk
            /\ tasks' = [tasks EXCEPT ![r].pc = onRaise]
    /\ UNCHANGED soloVars

CUnlinkAfterPlumber(r) ==
    CUnlink(r, "pdf_unlink1", "pdf_pypdf2")

CUnlinkAfterPyPDF2(r) ==
    CUnlink(r, "pdf_unlink2", "pdf_unlink3")

\* the inner except clause: unlink and the sentinel, or the outer except
CInnerExcept(r) ==
    /\ tasks[r].pc = "pdf_unlink3"
    /\ IF tasks[r].temp_file_path \in DOMAIN disk
       THEN /\ disk' = Unlinked(tasks[r].temp_file_path)
            /\ tasks' = [tasks EXCEPT ![r].pc = "pii_analyze",
                                      ![r].extracted_text = PdfExtractError]
       ELSE /\ disk' = disk
            /\ tasks' = [tasks EXCEPT ![r].pc = "pii_analyze",
                                      ![r].extracted_text = PdfProcessError]
    /\ UNCHANGED soloVars

\* the analysis, on the engine all requests share
CAnalyze(r) ==
    /\ tasks[r].pc = "pii_analyze"
    /\ tasks' = [tasks EXCEPT
          ![r].pc = "pii_presidio",
          ![r].stages = Append(@, "detect"),
          ![r].presidio_results =
              AnalyzeWithPresidio(tasks[r].extracted_text, recognised)]
    /\ UNCHANGED <<disk, soloVars>>

CPresidio(r) ==
    /\ tasks[r].pc = "pii_presidio"
    /\ tasks' = [tasks EXCEPT
          ![r].pc = "pii_scrubadub",
          ![r].stages = Append(@, "anonymize"),
          ![r].presidio_anonymized =
              AnonymizeWithPresidio(tasks[r].extracted_text,
                                    tasks[r].presidio_results)]
    /\ UNCHANGED <<disk, soloVars>>

CScrubadub(r) ==
    /\ tasks[r].pc = "pii_scrubadub"
    /\ tasks' = [tasks EXCEPT
          ![r].pc = "pii_anonympy",
          ![r].scrubadub_anonymized =
              AnonymizeWithScrubadub(tasks[r].presidio_anonymized,
                                     scrubadub_finds)]
    /\ UNCHANGED <<disk, soloVars>>

CAnonympy(r) ==
    /\ tasks[r].pc = "pii_anonympy"
    /\ tasks' = [tasks EXCEPT
          ![r].pc = "pii_done",
          ![r].final_anonymized =
              AnonymizeWithAnonympy(tasks[r].scrubadub_anonymized),
          ![r].entities_found =
              EntitiesFound(tasks[r].extracted_text, tasks[r].presidio_results)]
    /\ UNCHANGED <<disk, soloVars>>

CRespond(r) ==
    /\ tasks[r].pc = "pii_done"
    /\ tasks' = [tasks EXCEPT
          ![r].pc = "responded",
          ![r].response =
              [ status |-> 200, detail |-> "",
                extraction_engine |-> strategy,
                file_size_bytes |-> Len(tasks[r].file_content),
                layout_preserved_text |-> tasks[r].extracted_text,
                anonymized_text |-> tasks[r].final_anonymized,
                entities_found |-> tasks[r].entities_found,
                anonymization_count |-> Len(tasks[r].entities_found) ]]
    /\ UNCHANGED <<disk, soloVars>>

\* one step of one of the requests; the event loop picks which
ConcNext ==
    \E r \in Requests :
       \/ CRead(r)
       \/ CDispatch(r)
       \/ CStage(r)
       \/ CPlumber(r)
       \/ CUnlinkAfterPlumber(r)
       \/ CPyPDF2(r)
       \/ CUnlinkAfterPyPDF2(r)
       \/ CInnerExcept(r)
       \/ CAnalyze(r)
       \/ CPresidio(r)
       \/ CScrubadub(r)
       \/ CAnonympy(r)
       \/ CRespond(r)

\* several requests arrive at a running service
InitConcurrent ==
    /\ filename = <<>>
    /\ file_content = <<>>
    /\ strategy = "unstructured"
    /\ installed = Libraries
    /\ document = NoDocument
    /\ tasks \in [Requests -> {NewTask(f, c) : f \in ConcFilenames,
                                                c \in ConcContents}]
    /\ disk = <<>>
    /\ docx_available = TRUE
    /\ tesseract_available = TRUE
    /\ recognised = Kinds
    /\ scrubadub_finds = "email"
    /\ pc = "start"
    /\ InitExtraction
    /\ InitPII
    /\ response = NoResponse

SpecConcurrent ==
    InitConcurrent /\ [][ConcNext]_vars

\* ================================================================ claims

\* the extension the dispatch of the request reads
FileExt ==
    ToLower(GetFileExtension(filename))

\* the extraction entry point has returned or raised
ExtractEnded ==
    pc \in {"extract_done", "extract_raised"}

\* no backend of the chain completed: each one run raised, or none could run
NoBackendSucceeded ==
    /\ FileExt \in ExtPdf \cup ExtWord \cup ExtImage
    /\ \A k \in 1 .. Len(attempts) : ~attempts[k].ok

\* C1: whatever the upload, the file name, the strategy and the outcomes of
\* the backends, the extraction entry point does not raise: it returns a
\* text (decoded characters, no raw byte), and when no backend of the chain
\* completed the text is a sentinel that is not empty.
C1_ExtractNeverRaises ==
    /\ pc # "extract_raised"
    /\ pc = "extract_done" =>
          /\ \A k \in 1 .. Len(extracted_text) : IsValidByte(extracted_text[k])
          /\ NoBackendSucceeded => Len(extracted_text) > 0

\* C1 witness: a PDF whose two backends both raised came back as the sentinel
C1_Witness ==
    /\ pc = "extract_done"
    /\ FileExt \in ExtPdf
    /\ Len(attempts) = 2
    /\ NoBackendSucceeded
    /\ extracted_text = PdfExtractError

\* C2: when the extraction call returns, a temporary file that was staged
\* no longer exists, on every exit path.
C2_TempFileReleased ==
    ExtractEnded => tmp_file # "exists"

\* the first backend in the log that completed without raising
FirstOk ==
    Min({k \in 1 .. Len(attempts) : attempts[k].ok})

\* C9: for a .pdf, PyPDF2 runs only as the second backend, after pdfplumber
\* raised; the result is the output of the first backend that completed;
\* and the PDF error sentinel is returned only when both raised.
C9_PdfOrder ==
    FileExt \in ExtPdf =>
       /\ \A k \in 1 .. Len(attempts) :
             attempts[k].backend = "pypdf2" =>
                k = 2 /\ attempts[1].backend = "pdfplumber" /\ ~attempts[1].ok
       /\ (pc = "extract_done" /\ \E k \in 1 .. Len(attempts) : attempts[k].ok)
             => extracted_text = attempts[FirstOk].out
       /\ (pc = "extract_done" /\ extracted_text = PdfExtractError)
             => Len(attempts) = 2 /\ ~attempts[1].ok /\ ~attempts[2].ok

\* the sentinel of an image upload on a host without the OCR engine
TesseractMissing ==
    TesseractPrefix \o TesseractCmd \o TesseractInfix \o ErrMsg

KindToken ==
    [ EMAIL_ADDRESS |-> <<"[","E","M","A","I","L","]">>,
      PHONE_NUMBER  |-> <<"[","P","H","O","N","E","]">>,
      CREDIT_CARD   |-> <<"[","C","R","E","D","I","T","_","C","A","R","D","]">>,
      URL           |-> <<"[","U","R","L","]">>,
      PERSON        |-> <<"[","P","E","R","S","O","N","]">> ]

\* one left-to-right pass over t from offset i: each entity of the list, in
\* its order, has its span replaced by the token of its kind, and what lies
\* outside the spans is copied
RECURSIVE SinglePass(_, _, _)
SinglePass(t, ents, i) ==
    IF ents = <<>> THEN Slice(t, i, Len(t))
    ELSE LET e == Head(ents)
             s == IF e.start_char > i THEN e.start_char ELSE i
             n == IF e.end_char > s THEN e.end_char ELSE s
         IN  Slice(t, i, s) \o KindToken[e.type] \o SinglePass(t, Tail(ents), n)

\* anonymize_text has returned
AnonymizeDone ==
    pc = "pii_done"

\* C3: the anonymized text is the result of one left-to-right pass over the
\* original text that replaces exactly the spans of the reported entities
\* by the tokens of their kinds and copies everything else.
C3_SinglePass ==
    AnonymizeDone => final_anonymized = SinglePass(text, entities_found, 0)

\* C4: the reported entity list is sorted by start offset and no two of its
\* spans overlap.
C4_SortedDisjoint ==
    AnonymizeDone =>
       \A i, j \in 1 .. Len(entities_found) :
          i < j => entities_found[i].end_char <= entities_found[j].start_char

\* C5: every reported entity lies inside the original text, is not empty,
\* and its reported text is the slice of the original text at its offsets.
C5_SpansValid ==
    AnonymizeDone =>
       \A k \in 1 .. Len(entities_found) :
          LET e == entities_found[k]
          IN  /\ 0 <= e.start_char
              /\ e.start_char < e.end_char
              /\ e.end_char <= Len(text)
              /\ e.text = Slice(text, e.start_char, e.end_char)

\* C5 witness: two entities were reported, the second behind the first, and
\* the replacement pass had moved the offsets of the text by then
C5_Witness ==
    /\ AnonymizeDone
    /\ Len(entities_found) = 2
    /\ entities_found[1].end_char <= entities_found[2].start_char
    /\ Len(presidio_anonymized) # Len(text)

\* C6: when no entity is reported, the anonymized text is the input text.
C6_EmptyIsIdentity ==
    (AnonymizeDone /\ entities_found = <<>>) => final_anonymized = text

\* C7: anonymizing the anonymized text returns it unchanged.
C7_Idempotent ==
    (AnonymizeDone /\ run = 2) => final_anonymized = first_output

\* the request names no file or carries no byte
InvalidRequest ==
    filename = <<>> \/ file_content = <<>>

\* C8: a request with an empty file name or an empty upload is rejected
\* before extraction or anonymization runs, and the caller sees a request
\* rejection (400), not the 500 of a failed pipeline.
C8_InvalidRejected ==
    InvalidRequest =>
       /\ pc \in {"start", "responded"}
       /\ pc = "responded" => response.status = 400

\* the PDF request of scenario D was answered: pdfplumber raised, PyPDF2
\* returned a text, the temporary file was unlinked
PdfSecondBackendAnswered ==
    /\ pc = "responded"
    /\ response.status = 200
    /\ FileExt \in ExtPdf
    /\ Len(attempts) = 2
    /\ ~attempts[1].ok
    /\ attempts[2].ok
    /\ tmp_file = "unlinked"

\* C11: the extraction_engine of a returned document names the technique
\* that produced the extracted text; for a .pdf whose structural backend
\* raised and whose page-stream backend returned, it names the page-stream
\* backend and the content is that backend's text.
C11_EngineNamesTechnique ==
    /\ (pc = "responded" /\ response.status = 200 /\ attempts # <<>>)
          => response.extraction_engine \in
                {attempts[k].backend : k \in 1 .. Len(attempts)}
    /\ PdfSecondBackendAnswered =>
          /\ response.extraction_engine = attempts[2].backend
          /\ response.layout_preserved_text = attempts[2].out

\* tok stands somewhere in t
Occurs(tok, t) ==
    \E i \in 0 .. (Len(t) - Len(tok)) : Slice(t, i, i + Len(tok)) = tok

\* the anonymized text the claim gives for the sample sentence
SampleAnonymized ==
    <<"c","o","n","t","a","c","t"," ","[","P","E","R","S","O","N","]"," ",
      "a","t"," ","[","E","M","A","I","L","]"," ","o","r"," ",
      "[","P","H","O","N","E","]",".">>

\* the kinds of the reported entities, one per entity
ReportedKinds ==
    [k \in 1 .. Len(entities_found) |-> entities_found[k].type]

\* C12: every reported entity is replaced by the bracketed token of its
\* kind; for the sample sentence, when the entities include one e-mail
\* address, one phone number and one person, the anonymized text is
\* "contact [PERSON] at [EMAIL] or [PHONE].".
C12_BracketedTokens ==
    (AnonymizeDone /\ run = 1) =>
       /\ \A k \in 1 .. Len(entities_found) :
             Occurs(KindToken[entities_found[k].type], final_anonymized)
       /\ ( /\ text = SampleText
            /\ \A kind \in {"EMAIL_ADDRESS", "PHONE_NUMBER", "PERSON"} :
                  \E k \in 1 .. Len(entities_found) : ReportedKinds[k] = kind )
          => final_anonymized = SampleAnonymized

\* what the three passes make of a text on a host, and the entity list:
\* a function of the text and of the host, in which the strategy has no part
PiiOutput(t, recognisers, scrub) ==
    LET results == AnalyzeWithPresidio(t, recognisers)
    IN  [ anonymized_text |->
              AnonymizeWithAnonympy(
                  AnonymizeWithScrubadub(AnonymizeWithPresidio(t, results), scrub)),
          entities_found |-> EntitiesFound(t, results) ]

\* C13: the strategy does not change the PII pipeline: the text handed to
\* it is the extracted text, and the anonymized text and the entity list of
\* every returned document are those of the same passes over the extracted
\* text, for 'marker' as for 'unstructured'.
C13_StrategyIndependent ==
    /\ pc \in {"pii_analyze", "pii_presidio", "pii_scrubadub", "pii_anonympy",
               "pii_done"} => text = extracted_text
    /\ (pc = "responded" /\ response.status = 200) =>
          LET out == PiiOutput(extracted_text, recognised, scrubadub_finds)
          IN  /\ response.layout_preserved_text = extracted_text
              /\ response.anonymized_text = out.anonymized_text
              /\ response.entities_found = out.entities_found

\* C13 witness: a 'marker' request was answered with a text the passes changed
C13_Witness ==
    /\ pc = "responded"
    /\ response.status = 200
    /\ strategy = "marker"
    /\ response.anonymized_text # response.layout_preserved_text
    /\ response.entities_found = <<>>

\* the request was answered and its scrubbing pass had raised: the scrubber
\* of the host raises, and the analysis and the replacement before it did not
ScrubbingPassRaised ==
    /\ pc = "responded"
    /\ filename # <<>>
    /\ scrubadub_finds = "raise"
    /\ response.detail # "Processing failed: PII anonymization failed"

\* C14: an exception raised inside a pass after extraction is not absorbed:
\* the request ends in the labeled failure and no document with an
\* anonymized text is returned.
C14_PassFailureSurfaces ==
    ScrubbingPassRaised =>
       /\ response.status = 500
       /\ response.anonymized_text = <<>>

\* C15: with any subset of the external capabilities missing on the host,
\* the start-up of the service completes, and an upload that needs none of
\* them (a .txt file) is still extracted.
C15_StartupTolerant ==
    /\ pc # "startup_failed"
    /\ (pc = "extract_done" /\ FileExt \in ExtText)
          => extracted_text = Decode(file_content)

\* the texts the cascade returns in place of an extracted text
Sentinels ==
    { CouldNotExtract, PdfExtractError, PdfProcessError, DocxNotAvailable,
      NoTextInWord, WordExtractPrefix \o ErrMsg, WordProcessPrefix \o ErrMsg,
      TesseractMissing, NoTextInImage, ImageExtractPrefix \o ErrMsg,
      ImageProcessPrefix \o ErrMsg }

\* the request was answered and its extraction had returned a sentinel
SentinelAnswered ==
    /\ pc = "responded"
    /\ filename # <<>>
    /\ extracted_text \in Sentinels

C17_CancelReleases ==
    pc = "extract_cancelled" => tmp_file # "exists"

\* C18: a backend that returns an empty text counts as failed: in the PDF
\* cascade, after pdfplumber returned an empty text PyPDF2 is run, and the
\* cascade never returns the empty text.
C18_EmptyCountsAsFailed ==
    (FileExt \in ExtPdf /\ pc = "extract_done") =>
       /\ (Len(attempts) >= 1 /\ attempts[1].ok /\ attempts[1].out = <<>>)
             => (Len(attempts) = 2 /\ attempts[2].backend = "pypdf2")
       /\ extracted_text # <<>>

\* the priority order of the kinds, for candidates of equal length
KindPriority ==
    [ CREDIT_CARD |-> 2, EMAIL_ADDRESS |-> 3, PHONE_NUMBER |-> 4,
      URL |-> 6, PERSON |-> 7 ]

\* candidate c overlaps the reported entity e and is to be retained over it
BeatsReported(c, e) ==
    /\ c.start < e.end_char
    /\ e.start_char < c.end
    /\ \/ c.end - c.start > e.end_char - e.start_char
       \/ /\ c.end - c.start = e.end_char - e.start_char
          /\ KindPriority[c.entity_type] < KindPriority[e.type]

\* the text of the overlap scenario: an e-mail address whose local part a
\* name recogniser tags
EmailText ==
    <<"j","o","@","e","x",".","c","o">>

\* C19: of two overlapping candidates only the longer one (on equal length
\* the one of the kind of higher priority) is reported; for the candidates
\* EMAIL_ADDRESS[0,8) and PERSON[0,2) only the EMAIL_ADDRESS entity is.
C19_LongestWins ==
    AnonymizeDone =>
       /\ \A i \in 1 .. Len(entities_found) :
             \A k \in 1 .. Len(presidio_results) :
                ~BeatsReported(presidio_results[k], entities_found[i])
       /\ (text = EmailText /\ recognised = {"EMAIL_ADDRESS", "PERSON"})
             => /\ Len(entities_found) = 1
                /\ entities_found[1].type = "EMAIL_ADDRESS"
                /\ entities_found[1].start_char = 0
                /\ entities_found[1].end_char = Len(EmailText)

\* the chain the claim expects for each file name of the model
ExpectedChain(fname) ==
    IF fname \in {<<"a",".","p","d","f">>, <<"A",".","P","D","F">>} THEN "pdf"
    ELSE IF fname \in {<<"a",".","d","o","c","x">>, <<"a",".","d","o","c">>} THEN "word"
    ELSE IF fname \in ImageFilenames \cup {<<"a",".","J","p","g">>} THEN "image"
    ELSE "decode"

\* the chain a position of the cascade belongs to
ChainOf(p) ==
    IF p \in {"pdf_create", "pdf_write", "pdf_plumber", "pdf_unlink1",
              "pdf_pypdf2", "pdf_unlink2", "pdf_unlink3"} THEN "pdf"
    ELSE IF p \in {"word_check", "word_create", "word_write", "word_docx",
                   "word_unlink", "word_except"} THEN "word"
    ELSE IF p \in {"image_check", "image_create", "image_write", "image_open",
                   "image_ocr1", "image_ocr2", "image_unlink", "image_except"}
    THEN "image"
    ELSE "none"

\* what each chain can return
ChainResults(chain) ==
    IF chain = "pdf" THEN PdfTexts \cup {PdfExtractError, PdfProcessError}
    ELSE IF chain = "word"
    THEN ({Strip(t) : t \in RawTexts} \ {<<>>})
         \cup {DocxNotAvailable, NoTextInWord, WordExtractPrefix \o ErrMsg,
               WordProcessPrefix \o ErrMsg}
    ELSE IF chain = "image"
    THEN ({Strip(t) : t \in RawTexts} \ {<<>>})
         \cup {TesseractMissing, NoTextInImage, ImageExtractPrefix \o ErrMsg,
               ImageProcessPrefix \o ErrMsg}
    ELSE {}

\* C20: the chain is chosen by the lower-cased extension of the file name
\* alone: .pdf, .docx/.doc and the image extensions reach their chain in
\* any letter case, and every other file name is decoded as UTF-8, which
\* does not raise, stages no file, runs no backend, drops nothing of a
\* valid content.
C20_DispatchByExtension ==
    /\ ChainOf(pc) # "none" => ChainOf(pc) = ExpectedChain(filename)
    /\ pc = "extract_done" =>
          IF ExpectedChain(filename) = "decode"
          THEN /\ extracted_text = Decode(file_content)
               /\ attempts = <<>>
               /\ tmp_file = "none"
               /\ (\A k \in 1 .. Len(file_content) : IsValidByte(file_content[k]))
                     => extracted_text = file_content
          ELSE extracted_text \in ChainResults(ExpectedChain(filename))
    /\ ExpectedChain(filename) = "decode" => pc # "extract_raised"

\* C20 witness: a file named A.PDF went through the PDF chain and the text
\* of pdfplumber came back
C20_Witness ==
    /\ pc = "extract_done"
    /\ filename = <<"A",".","P","D","F">>
    /\ Len(attempts) = 1
    /\ attempts[1].backend = "pdfplumber"
    /\ attempts[1].ok
    /\ extracted_text = attempts[1].out

\* t.split("\n")
RECURSIVE SplitLines(_)
SplitLines(t) ==
    LET nl == {k \in 1 .. Len(t) : t[k] = "\n"}
    IN  IF nl = {} THEN <<t>>
        ELSE <<SubSeq(t, 1, Min(nl) - 1)>>
             \o SplitLines(SubSeq(t, Min(nl) + 1, Len(t)))

\* the table has a cell that is not empty
HasContent(table) ==
    \E r \in 1 .. Len(table) : \E k \in 1 .. Len(table[r]) :
       Strip(table[r][k]) # <<>>

\* the line that announces table number n in the rendering
CaptionLine(n) ==
    Tail(TableCaption(n - 1))

\* _extract_docx_text has returned the rendering of a document
DocxRendered ==
    pc = "word_unlink" /\ document.valid

\* the document has no paragraph and no table with anything in it
EmptyDocument ==
    /\ document.valid
    /\ ParagraphsParts(document.paragraphs) = <<>>
    /\ \A n \in 1 .. Len(document.tables) : ~HasContent(document.tables[n])

\* the rendering is returned: the unlink after the backend went through
RenderingReturned ==
    /\ pc = "word_unlink"
    /\ pc' = "extract_done"
    /\ tmp_file' = "unlinked"

\* C21: every table with a non-empty cell is rendered as a header row, then
\* a separator line, then its other rows; a table without a non-empty cell
\* adds nothing; a document without a non-empty paragraph or table yields
\* the "no text found" sentinel.
C21_TablesRendered ==
    /\ [](DocxRendered =>
            LET lines == SplitLines(pending)
            IN  \A n \in 1 .. Len(document.tables) :
                   IF HasContent(document.tables[n])
                   THEN \E i \in 1 .. (Len(lines) - 2) :
                           /\ lines[i] = CaptionLine(n)
                           /\ lines[i + 1] # <<>>
                           /\ lines[i + 2] = Dashes(Len(lines[i + 1]))
                   ELSE \A i \in 1 .. Len(lines) : lines[i] # CaptionLine(n))
    /\ [][(RenderingReturned /\ EmptyDocument)
             => extracted_text' = NoTextInWord]_vars

\* what the extraction returns for an upload when the request runs alone
ExtractAlone(fname, content) ==
    IF ToLower(GetFileExtension(fname)) \in ExtPdf
    THEN IF PdfReads("pdfplumber", content).kind = "return"
         THEN PdfReads("pdfplumber", content).value
         ELSE IF PdfReads("pypdf2", content).kind = "return"
         THEN PdfReads("pypdf2", content).value
         ELSE PdfExtractError
    ELSE Decode(content)

\* the order of the stages of one request
StageOrder ==
    <<"extract", "detect", "anonymize">>

\* the request holds a staged file
Staged(r) ==
    tasks[r].pc \in {"pdf_plumber", "pdf_unlink1", "pdf_pypdf2", "pdf_unlink2",
                     "pdf_unlink3"}

\* C22: the stages of a request run in the order extract, detect,
\* anonymize, each on the result of the one before; and however the steps
\* of the requests interleave, the staged file of a request is its own and
\* holds its own upload, and the document it is answered with is the one
\* it gets when it runs alone.
C22_RequestsIsolated ==
    \A r \in Requests :
       LET t == tasks[r]
           alone == ExtractAlone(t.filename, t.file_content)
           out == PiiOutput(alone, recognised, scrubadub_finds)
       IN  /\ t.stages = SubSeq(StageOrder, 1, Len(t.stages))
           /\ "detect" \in {t.stages[k] : k \in 1 .. Len(t.stages)}
                 => t.extracted_text = alone
           /\ "anonymize" \in {t.stages[k] : k \in 1 .. Len(t.stages)}
                 => t.presidio_results = AnalyzeWithPresidio(alone, recognised)
           /\ Staged(r) =>
                 /\ t.temp_file_path \in DOMAIN disk
                 /\ disk[t.temp_file_path] = t.file_content
                 /\ \A q \in Requests \ {r} :
                       Staged(q) => tasks[q].temp_file_path # t.temp_file_path
           /\ t.pc = "responded" =>
                 /\ t.stages = StageOrder
                 /\ t.response.status = 200
                 /\ t.response.layout_preserved_text = alone
                 /\ t.response.anonymized_text = out.anonymized_text
                 /\ t.response.entities_found = out.entities_found

\* C22 witness: two PDF requests with different uploads had their files on
\* disk at the same time, and both were answered
C22_Witness ==
    /\ \A r \in Requests :
          /\ tasks[r].pc = "responded"
          /\ tasks[r].shared_disk
          /\ tasks[r].response.anonymized_text # <<>>
    /\ tasks[1].response.layout_preserved_text
          # tasks[2].response.layout_preserved_text

\* the substitutions of the pattern pass, in the order of their re.sub calls
PatternPass ==
    << [pat |-> "email",       token |-> <<"[","E","M","A","I","L","]">>],
       [pat |-> "phone",       token |-> <<"[","P","H","O","N","E","]">>],
       [pat |-> "phone_paren", token |-> <<"[","P","H","O","N","E","]">>],
       [pat |-> "ssn",         token |-> <<"[","S","S","N","]">>],
       [pat |-> "credit_card", token |-> <<"[","C","R","E","D","I","T","_","C","A","R","D","]">>],
       [pat |-> "ip",          token |-> <<"[","I","P","_","A","D","D","R","E","S","S","]">>],
       [pat |-> "url",         token |-> <<"[","U","R","L","]">>] >>

\* the text after the first k substitutions of the pass over t
RECURSIVE TextAfter(_, _)
TextAfter(k, t) ==
    IF k = 0 THEN t
    ELSE ReSub(PatternPass[k].pat, PatternPass[k].token, TextAfter(k - 1, t))

\* the origin of each character of ReSub's result, scanning t from offset
\* i: a character kept from t keeps its origin m, the o-th character of a
\* token inserted by substitution k has origin <<k, o>>
RECURSIVE OriginsFrom(_, _, _, _)
OriginsFrom(k, t, m, i) ==
    LET pat == PatternPass[k].pat
        j == NextMatch(pat, t, i)
    IN  IF j < 0 THEN Slice(m, i, Len(t))
        ELSE Slice(m, i, j)
                \o [o \in 1 .. Len(PatternPass[k].token) |-> <<k, o>>]
                \o OriginsFrom(k, t, m, MatchEnd(pat, t, j))

\* the origin of each character of TextAfter(k, t); <<0, 0>> is a character
\* of t itself
RECURSIVE OriginsAfter(_, _)
OriginsAfter(k, t) ==
    IF k = 0 THEN [p \in 1 .. Len(t) |-> <<0, 0>>]
    ELSE OriginsFrom(k, TextAfter(k - 1, t), OriginsAfter(k - 1, t), 0)

\* the spans substitution k replaces in the pass over t
MatchesOf(k, t) ==
    FindFrom(PatternPass[k].pat, TextAfter(k - 1, t), 0)

\* C23: in the pattern pass no substitution matches a character of a token
\* an earlier substitution inserted, and every token inserted during the
\* pass stands whole in the pass's result.
C23_TokensSurvive ==
    pc = "pii_done" =>
       LET t0 == scrubadub_anonymized
           origin == OriginsAfter(Len(PatternPass), t0)
       IN  /\ final_anonymized = TextAfter(Len(PatternPass), t0)
           /\ \A k \in 1 .. Len(PatternPass) :
                 LET before == OriginsAfter(k - 1, t0)
                     token == PatternPass[k].token
                     starts == {p \in 1 .. Len(origin) : origin[p] = <<k, 1>>}
                 IN  /\ \A span \in MatchesOf(k, t0) :
                           \A p \in (span[1] + 1) .. span[2] :
                              before[p] = <<0, 0>>
                     /\ Cardinality(starts) = Cardinality(MatchesOf(k, t0))
                     /\ \A p \in starts :
                           /\ p + Len(token) - 1 <= Len(origin)
                           /\ \A o \in 1 .. Len(token) :
                                 /\ origin[p + o - 1] = <<k, o>>
                                 /\ final_anonymized[p + o - 1] = token[o]

\* C23 witness: the pass has run and a later substitution replaced a match
\* that ended right where a token of an earlier substitution begins
C23_Witness ==
    /\ pc = "pii_done"
    /\ LET origin == OriginsAfter(Len(PatternPass), scrubadub_anonymized)
       IN  \E p \in 1 .. (Len(origin) - 1) :
              /\ origin[p][1] > origin[p + 1][1]
              /\ origin[p + 1][1] > 0
              /\ origin[p + 1][2] = 1

====
